---- MODULE Spec2Model ----
(***************************************************************************)
(* Verification model of the spatial-typestate crate: frame-tagged points, *)
(* transforms, unit quaternions and unit-tagged quantities.                *)
(*                                                                         *)
(* Every number of the crate is an f64.  The model keeps IEEE-754 binary   *)
(* arithmetic (round to nearest, ties to even; signed zeros; subnormals;   *)
(* overflow to infinity; NaN) but in a reduced format with Prec            *)
(* significand bits and exponents 1-Bias .. Bias (f64 is Prec = 53,        *)
(* Bias = 1023).  A finite value is sign * k * 2^(2 - Prec - Bias): k      *)
(* counts units of the smallest subnormal.                                 *)
(***************************************************************************)
EXTENDS Integers, Sequences, FiniteSets, TLC

\* Significand bits of the reduced float format (f64: 53).
Prec == 2
\* Largest binary exponent of the reduced float format (f64: 1023).
Bias == 2

RECURSIVE Pow2(_)
Pow2(n) == IF n <= 0 THEN 1 ELSE 2 * Pow2(n - 1)

\* 1.0 counted in units of the smallest subnormal.
One == Pow2(Prec - 2 + Bias)
\* f64::MAX counted in units of the smallest subnormal.
MaxK == (Pow2(Prec) - 1) * Pow2(2 * Bias - 1)

NaN == [c |-> "nan", s |-> 0, k |-> 0]
Inf(sg) == [c |-> "inf", s |-> sg, k |-> 0]
Fin(sg, mag) == [c |-> "fin", s |-> sg, k |-> mag]

\* XOR of two sign bits.
SignXor(a, b) == IF a = b THEN 0 ELSE 1

\* Smallest s >= 0 for which n / (d * 2^s) has at most Prec integer bits.
RECURSIVE Shift(_, _, _)
Shift(n, d, s) == IF n < d * Pow2(s + Prec) THEN s ELSE Shift(n, d, s + 1)

\* The magnitude n/d (n >= 0, d > 0, in units) rounded to the nearest value
\* with Prec significant bits, ties to even; the exponent is not yet bounded.
RoundMag(n, d) ==
    LET s == Shift(n, d, 0)
        D == d * Pow2(s)
        q == n \div D
        r == n % D
        up == IF 2 * r > D \/ (2 * r = D /\ q % 2 = 1) THEN 1 ELSE 0
    IN (q + up) * Pow2(s)

\* A rounded magnitude as a float: beyond f64::MAX it is an infinity.
Pack(sg, mag) == IF mag > MaxK THEN Inf(sg) ELSE Fin(sg, mag)

\* The magnitudes of the finite floats, and the floats.
Mags == {m \in 0..MaxK : RoundMag(m, 1) = m}
Finite == {Fin(sg, m) : sg \in {0, 1}, m \in Mags}
Floats == Finite \cup {NaN, Inf(0), Inf(1)}

\* The integer sign * k of a finite float.
Signed(a) == IF a.s = 1 THEN 0 - a.k ELSE a.k
Abs(n) == IF n < 0 THEN 0 - n ELSE n

\* f64::is_finite
is_finite(a) == a.c = "fin"

\* f64 == (NaN equals nothing, -0.0 equals +0.0)
feq(a, b) ==
    /\ a.c # "nan"
    /\ b.c # "nan"
    /\ \/ a = b
       \/ a.c = "fin" /\ b.c = "fin" /\ a.k = 0 /\ b.k = 0

\* f64 *
fmul(a, b) ==
    IF a.c = "nan" \/ b.c = "nan" THEN NaN
    ELSE IF a.c = "inf" \/ b.c = "inf"
         THEN IF (a.c = "fin" /\ a.k = 0) \/ (b.c = "fin" /\ b.k = 0)
              THEN NaN
              ELSE Inf(SignXor(a.s, b.s))
    ELSE Pack(SignXor(a.s, b.s), RoundMag(a.k * b.k, One))

\* f64 +
fadd(a, b) ==
    IF a.c = "nan" \/ b.c = "nan" THEN NaN
    ELSE IF a.c = "inf" /\ b.c = "inf"
         THEN IF a.s = b.s THEN a ELSE NaN
    ELSE IF a.c = "inf" THEN a
    ELSE IF b.c = "inf" THEN b
    ELSE LET n == Signed(a) + Signed(b)
         IN IF n = 0
            THEN Fin(IF a.s = 1 /\ b.s = 1 THEN 1 ELSE 0, 0)
            ELSE Pack(IF n < 0 THEN 1 ELSE 0, RoundMag(Abs(n), 1))

\* f64 /
fdiv(a, b) ==
    IF a.c = "nan" \/ b.c = "nan" THEN NaN
    ELSE IF a.c = "inf"
         THEN IF b.c = "inf" THEN NaN ELSE Inf(SignXor(a.s, b.s))
    ELSE IF b.c = "inf" THEN Fin(SignXor(a.s, b.s), 0)
    ELSE IF b.k = 0
         THEN IF a.k = 0 THEN NaN ELSE Inf(SignXor(a.s, b.s))
    ELSE Pack(SignXor(a.s, b.s), RoundMag(a.k * One, b.k))

\* Integer square root (floor).
RECURSIVE ISqrt(_)
ISqrt(n) ==
    IF n < 2 THEN n
    ELSE LET r == 2 * ISqrt(n \div 4)
         IN IF (r + 1) * (r + 1) <= n THEN r + 1 ELSE r

\* f64::sqrt (correctly rounded: the root to one guard bit plus a sticky bit)
fsqrt(a) ==
    IF a.c = "nan" THEN NaN
    ELSE IF a.c = "fin" /\ a.k = 0 THEN a
    ELSE IF a.s = 1 THEN NaN
    ELSE IF a.c = "inf" THEN a
    ELSE LET X == 4 * a.k * One
             R == ISqrt(X)
             sticky == IF R * R = X THEN 0 ELSE 1
         IN Pack(0, RoundMag(2 * R + sticky, 4))

\* The literals 0.0 and 1.0.
Zero == Fin(0, 0)
OneF == Fin(0, One)

(***************************************************************************)
(* errors.rs and quaternion.rs                                             *)
(***************************************************************************)
\* enum SpatialError
SpatialError == {"NonFinite", "ZeroNormQuaternion"}

\* Result<UnitQuat<F>, SpatialError>: val is <<x, y, z, w>> when kind = "Ok".
Ok(v) == [kind |-> "Ok", val |-> v]
Err(e) == [kind |-> e, val |-> <<>>]

\* x*x + y*y + z*z + w*w as the f64 expression evaluates it, left to right.
NormSq(x, y, z, w) ==
    fadd(fadd(fadd(fmul(x, x), fmul(y, y)), fmul(z, z)), fmul(w, w))

\* try_from_components without the finiteness test on w.
try_from_components_unchecked_w(x, y, z, w) ==
    IF ~is_finite(x) \/ ~is_finite(y) \/ ~is_finite(z)
    THEN Err("NonFinite")
    ELSE LET norm_sq == NormSq(x, y, z, w)
         IN IF feq(norm_sq, Zero)
            THEN Err("ZeroNormQuaternion")
            ELSE LET norm == fsqrt(norm_sq)
                 IN Ok(<<fdiv(x, norm), fdiv(y, norm), fdiv(z, norm), fdiv(w, norm)>>)

\* try_from_components with a tolerance band in place of the exact-zero test:
\* a subnormal sum of squares is rejected too.
try_from_components_tolerance(x, y, z, w) ==
    IF ~is_finite(x) \/ ~is_finite(y) \/ ~is_finite(z) \/ ~is_finite(w)
    THEN Err("NonFinite")
    ELSE LET norm_sq == NormSq(x, y, z, w)
         IN IF norm_sq.c = "fin" /\ norm_sq.k < Pow2(Prec - 1)
            THEN Err("ZeroNormQuaternion")
            ELSE LET norm == fsqrt(norm_sq)
                 IN Ok(<<fdiv(x, norm), fdiv(y, norm), fdiv(z, norm), fdiv(w, norm)>>)

\* UnitQuat::try_from_components
try_from_components(x, y, z, w) ==
    IF ~is_finite(x) \/ ~is_finite(y) \/ ~is_finite(z) \/ ~is_finite(w)
    THEN Err("NonFinite")
    ELSE LET norm_sq == NormSq(x, y, z, w)
         IN IF feq(norm_sq, Zero)
            THEN Err("ZeroNormQuaternion")
            ELSE LET norm == fsqrt(norm_sq)
                 IN Ok(<<fdiv(x, norm), fdiv(y, norm), fdiv(z, norm), fdiv(w, norm)>>)

\* UnitQuat::new_unchecked
new_unchecked(x, y, z, w) == Ok(<<x, y, z, w>>)

\* UnitQuat::identity
quat_identity == Ok(<<Zero, Zero, Zero, OneF>>)

(***************************************************************************)
(* frame.rs, point.rs, vector.rs                                           *)
(***************************************************************************)
\* The types that implement Frame (the frames the tests declare).
Frames == {"World", "Body", "Sensor"}

\* Point3::<F>::new
Point3_new(x, y, z, F) == [x |-> x, y |-> y, z |-> z, frame |-> F]

\* Vector3::<F>::new
Vector3_new(x, y, z, F) == [x |-> x, y |-> y, z |-> z, frame |-> F]

(***************************************************************************)
(* transform.rs                                                            *)
(***************************************************************************)
\* m[i][j] of a [[f64; 4]; 4], indices from 0.
At(m, i, j) == m[i + 1][j + 1]

\* m[i][j] = v
SetAt(m, i, j, v) ==
    [a \in 1..4 |-> [b \in 1..4 |-> IF a = i + 1 /\ b = j + 1 THEN v ELSE m[a][b]]]

\* [[0.0_f64; 4]; 4]
ZeroMatrix == [a \in 1..4 |-> [b \in 1..4 |-> Zero]]

\* Transform::<From, To>::from_matrix
from_matrix(matrix, From, To) == [matrix |-> matrix, from |-> From, to |-> To]

\* identity with a 1.0 off the diagonal.
transform_identity_skewed(From, To) ==
    [matrix |-> << <<OneF, OneF, Zero, Zero>>,
                   <<Zero, OneF, Zero, Zero>>,
                   <<Zero, Zero, OneF, Zero>>,
                   <<Zero, Zero, Zero, OneF>> >>,
     from |-> From, to |-> To]

\* Transform::<From, To>::identity
transform_identity(From, To) ==
    [matrix |-> << <<OneF, Zero, Zero, Zero>>,
                   <<Zero, OneF, Zero, Zero>>,
                   <<Zero, Zero, OneF, Zero>>,
                   <<Zero, Zero, Zero, OneF>> >>,
     from |-> From, to |-> To]

\* from_translation writing the offsets where the field's documentation
\* ("column-major") puts them: m[3][0], m[3][1], m[3][2].
from_translation_column_major(tx, ty, tz, From, To) ==
    LET m0 == ZeroMatrix
        m1 == SetAt(m0, 0, 0, OneF)
        m2 == SetAt(m1, 1, 1, OneF)
        m3 == SetAt(m2, 2, 2, OneF)
        m4 == SetAt(m3, 3, 3, OneF)
        m5 == SetAt(m4, 3, 0, tx)
        m6 == SetAt(m5, 3, 1, ty)
        m7 == SetAt(m6, 3, 2, tz)
    IN from_matrix(m7, From, To)

\* Transform::<From, To>::from_translation
from_translation(tx, ty, tz, From, To) ==
    LET m0 == ZeroMatrix
        m1 == SetAt(m0, 0, 0, OneF)
        m2 == SetAt(m1, 1, 1, OneF)
        m3 == SetAt(m2, 2, 2, OneF)
        m4 == SetAt(m3, 3, 3, OneF)
        m5 == SetAt(m4, 0, 3, tx)
        m6 == SetAt(m5, 1, 3, ty)
        m7 == SetAt(m6, 2, 3, tz)
    IN from_matrix(m7, From, To)

\* The parameter type of apply_point: p must be a Point3<From>.
TypeChecks(tr, pt) == pt.frame = tr.from

\* One coordinate of apply_point, the matrix read as m[column][row].
TransposedRow(m, i, x, y, z) ==
    fadd(fadd(fadd(fmul(At(m, 0, i), x), fmul(At(m, 1, i), y)),
              fmul(At(m, 2, i), z)), At(m, 3, i))

\* apply_point reading the matrix column-major.
apply_point_transposed(tr, pt) ==
    Point3_new(TransposedRow(tr.matrix, 0, pt.x, pt.y, pt.z),
               TransposedRow(tr.matrix, 1, pt.x, pt.y, pt.z),
               TransposedRow(tr.matrix, 2, pt.x, pt.y, pt.z), tr.to)

\* One coordinate of apply_point.
Row(m, i, x, y, z) ==
    fadd(fadd(fadd(fmul(At(m, i, 0), x), fmul(At(m, i, 1), y)),
              fmul(At(m, i, 2), z)), At(m, i, 3))

\* apply_point returning a Point3<From>.
apply_point_keeps_frame(tr, pt) ==
    Point3_new(Row(tr.matrix, 0, pt.x, pt.y, pt.z), Row(tr.matrix, 1, pt.x, pt.y, pt.z),
               Row(tr.matrix, 2, pt.x, pt.y, pt.z), tr.from)

\* apply_point with an error path: a non-finite coordinate is reported.
apply_point_checked(tr, pt) ==
    LET r == Point3_new(Row(tr.matrix, 0, pt.x, pt.y, pt.z),
                        Row(tr.matrix, 1, pt.x, pt.y, pt.z),
                        Row(tr.matrix, 2, pt.x, pt.y, pt.z), tr.to)
    IN IF is_finite(r.x) /\ is_finite(r.y) /\ is_finite(r.z)
       THEN r
       ELSE [kind |-> "NonFinite", val |-> <<>>]

\* apply_point with w = 0: the point is moved as a direction would be.
apply_point_as_vector(tr, pt) ==
    LET m == tr.matrix
        Rot(i) == fadd(fadd(fmul(At(m, i, 0), pt.x), fmul(At(m, i, 1), pt.y)),
                       fmul(At(m, i, 2), pt.z))
    IN Point3_new(Rot(0), Rot(1), Rot(2), tr.to)

\* apply_point with a perspective divide by the homogeneous component.
apply_point_perspective(tr, pt) ==
    LET w == Row(tr.matrix, 3, pt.x, pt.y, pt.z)
    IN Point3_new(fdiv(Row(tr.matrix, 0, pt.x, pt.y, pt.z), w),
                  fdiv(Row(tr.matrix, 1, pt.x, pt.y, pt.z), w),
                  fdiv(Row(tr.matrix, 2, pt.x, pt.y, pt.z), w), tr.to)

\* Transform::apply_point
apply_point(tr, pt) ==
    LET m == tr.matrix
        x == pt.x
        y == pt.y
        z == pt.z
        xp == fadd(fadd(fadd(fmul(At(m, 0, 0), x), fmul(At(m, 0, 1), y)),
                        fmul(At(m, 0, 2), z)), At(m, 0, 3))
        yp == fadd(fadd(fadd(fmul(At(m, 1, 0), x), fmul(At(m, 1, 1), y)),
                        fmul(At(m, 1, 2), z)), At(m, 1, 3))
        zp == fadd(fadd(fadd(fmul(At(m, 2, 0), x), fmul(At(m, 2, 1), y)),
                        fmul(At(m, 2, 2), z)), At(m, 2, 3))
    IN Point3_new(xp, yp, zp, tr.to)

(***************************************************************************)
(* units.rs                                                                *)
(***************************************************************************)
\* The types that implement Unit.
Units == {"Meters", "Radians", "Degrees"}

\* f64 unary minus and f64 -
fneg(a) == IF a.c = "nan" THEN NaN ELSE [a EXCEPT !.s = 1 - a.s]
fsub(a, b) == fadd(a, fneg(b))

\* Quantity::<U>::new
quantity_new(value, U) == [value |-> value, unit |-> U]

\* Quantity::get
quantity_get(self) == self.value

\* impl Add with the body of impl Sub.
quantity_add_subtracts(self, rhs) == quantity_new(fsub(self.value, rhs.value), self.unit)

\* impl Add for Quantity<U>
quantity_add(self, rhs) == quantity_new(fadd(self.value, rhs.value), self.unit)

\* impl Sub with the body of impl Add.
quantity_sub_adds(self, rhs) == quantity_new(fadd(self.value, rhs.value), self.unit)

\* impl Sub for Quantity<U>
quantity_sub(self, rhs) == quantity_new(fsub(self.value, rhs.value), self.unit)

(***************************************************************************)
(* The program state.  Every value of the crate is a plain Copy value and  *)
(* every operation a function of its arguments; the variables hold the     *)
(* values a caller has bound so far.                                       *)
(***************************************************************************)
VARIABLES
    p,        \* the caller's Point3
    v,        \* the caller's Vector3
    t,        \* the caller's Transform
    q,        \* the Result of the caller's last UnitQuat construction
    qty,      \* the caller's Quantity
    call,     \* the last call: its name, its arguments, its outcome
    built,    \* the call that constructed t
    origin,   \* the point the caller started from
    applied,  \* the <<From, To>> of the transforms applied to the point, in order
    qa,       \* let qa = Quantity::new(a): the first operand
    qb,       \* let qb = Quantity::new(b): the second operand
    sum,      \* let sum = qa + qb
    diff,     \* let diff = qa - qb
    back,     \* let back = sum - qb
    raw,      \* let raw = qa.get()
    moves     \* the offsets of the translations applied to the point, in order

\* The values of the quantity arithmetic.
quantities == <<qa, qb, sum, diff, back, raw>>

vars == <<p, v, t, q, qty, call, built, origin, applied, quantities, moves>>

\* Values not yet bound.
NoPoint == [x |-> Zero, y |-> Zero, z |-> Zero, frame |-> "none"]
NoTransform == [matrix |-> <<>>, from |-> "none", to |-> "none"]
NoQuat == [kind |-> "none", val |-> <<>>]
NoQuantity == [value |-> Zero, unit |-> "none"]
NoCall == [op |-> "none", in |-> <<>>, outcome |-> "none"]
NoValue == [c |-> "none", s |-> 0, k |-> 0]

\* How a call ended: the error of a Result, "Ok" for a Result's Ok and for
\* every return type that is not a Result.
Outcome(r) == IF "kind" \in DOMAIN r THEN r.kind ELSE "Ok"

Call(op, in, r) == [op |-> op, in |-> in, outcome |-> Outcome(r)]

\* f64::MAX, the smallest positive subnormal.
MaxF == Fin(0, MaxK)
Tiny == Fin(0, 1)

(***************************************************************************)
(* The operations, as a caller invokes them.  Each action draws the        *)
(* arguments from the sets it is given; `n` bounds the number of           *)
(* apply_point calls of a behaviour.                                       *)
(***************************************************************************)
\* let p = Point3::<F>::new(x, y, z);
PointNew(XS, YS, ZS, FS) ==
    /\ call = NoCall
    /\ \E x \in XS, y \in YS, z \in ZS, F \in FS :
         /\ p' = Point3_new(x, y, z, F)
         /\ call' = Call("Point3::new", <<x, y, z>>, p')
    /\ origin' = p'
    /\ UNCHANGED <<v, t, q, qty, applied, built, quantities, moves>>

\* let v = Vector3::<F>::new(x, y, z);
VectorNew(XS, YS, ZS, FS) ==
    /\ call = NoCall
    /\ \E x \in XS, y \in YS, z \in ZS, F \in FS :
         /\ v' = Vector3_new(x, y, z, F)
         /\ call' = Call("Vector3::new", <<x, y, z>>, v')
    /\ UNCHANGED <<p, t, q, qty, origin, applied, built, quantities, moves>>

\* A transform is bound once the point exists, and again after each use.
CanBuild(n) ==
    /\ p # NoPoint
    /\ Len(applied) < n
    /\ t = NoTransform \/ call.op = "apply_point"

\* let t = Transform::<From, To>::identity();
TransformIdentity(FromS, ToS, n) ==
    /\ CanBuild(n)
    /\ \E From \in FromS, To \in ToS :
         /\ t' = transform_identity(From, To)
         /\ call' = Call("Transform::identity", <<>>, t')
    /\ built' = call'
    /\ UNCHANGED <<p, v, q, qty, origin, applied, quantities, moves>>

\* let t = Transform::<From, To>::from_translation(tx, ty, tz);
TransformFromTranslation(XS, YS, ZS, FromS, ToS, n) ==
    /\ CanBuild(n)
    /\ \E tx \in XS, ty \in YS, tz \in ZS, From \in FromS, To \in ToS :
         /\ t' = from_translation(tx, ty, tz, From, To)
         /\ call' = Call("Transform::from_translation", <<tx, ty, tz>>, t')
    /\ built' = call'
    /\ UNCHANGED <<p, v, q, qty, origin, applied, quantities, moves>>

\* let t = Transform::<From, To>::from_matrix(m);
TransformFromMatrix(MS, FromS, ToS, n) ==
    /\ CanBuild(n)
    /\ \E m \in MS, From \in FromS, To \in ToS :
         /\ t' = from_matrix(m, From, To)
         /\ call' = Call("Transform::from_matrix", <<m>>, t')
    /\ built' = call'
    /\ UNCHANGED <<p, v, q, qty, origin, applied, quantities, moves>>

\* let p = t.apply_point(p);  A call whose argument is not a Point3<From>
\* does not compile: the program is rejected and the point stays as it is.
ApplyPoint(n) ==
    /\ p # NoPoint
    /\ t # NoTransform
    /\ Len(applied) < n
    /\ IF TypeChecks(t, p)
       THEN /\ p' = apply_point(t, p)
            /\ call' = Call("apply_point", <<t, p>>, p')
            /\ applied' = Append(applied, <<t.from, t.to>>)
       ELSE /\ call' = [op |-> "apply_point", in |-> <<t, p>>, outcome |-> "type_error"]
            /\ UNCHANGED <<p, applied>>
    /\ UNCHANGED <<v, t, q, qty, origin, built, quantities, moves>>

\* let q = UnitQuat::<F>::try_from_components(x, y, z, w);
QuatTryFromComponents(XS, YS, ZS, WS) ==
    /\ call = NoCall
    /\ \E x \in XS, y \in YS, z \in ZS, w \in WS :
         /\ q' = try_from_components(x, y, z, w)
         /\ call' = Call("try_from_components", <<x, y, z, w>>, q')
    /\ UNCHANGED <<p, v, t, qty, origin, applied, built, quantities, moves>>

\* let q = UnitQuat::<F>::new_unchecked(x, y, z, w);
QuatNewUnchecked(XS, YS, ZS, WS) ==
    /\ call = NoCall
    /\ \E x \in XS, y \in YS, z \in ZS, w \in WS :
         /\ q' = new_unchecked(x, y, z, w)
         /\ call' = Call("new_unchecked", <<x, y, z, w>>, q')
    /\ UNCHANGED <<p, v, t, qty, origin, applied, built, quantities, moves>>

\* let q = UnitQuat::<F>::identity();
QuatIdentity ==
    /\ call = NoCall
    /\ q' = quat_identity
    /\ call' = Call("UnitQuat::identity", <<>>, q')
    /\ UNCHANGED <<p, v, t, qty, origin, applied, built, quantities, moves>>

\* let qty = Quantity::<U>::new(value);
QuantityNew(VS, US) ==
    /\ call = NoCall
    /\ \E value \in VS, U \in US :
         /\ qty' = quantity_new(value, U)
         /\ call' = Call("Quantity::new", <<value>>, qty')
    /\ UNCHANGED <<p, v, t, q, origin, applied, built, quantities, moves>>

\* let value = qty.get();
QuantityGet ==
    /\ qty # NoQuantity
    /\ call.op = "Quantity::new"
    /\ call' = Call("Quantity::get", <<qty>>, quantity_get(qty))
    /\ UNCHANGED <<p, v, t, q, qty, origin, applied, built, quantities, moves>>

\* let qty = qty + Quantity::<U>::new(value);  (U is qty's unit: Add is only
\* implemented between two Quantity<U> of one U)
QuantityAdd(VS) ==
    /\ qty # NoQuantity
    /\ call.op = "Quantity::new"
    /\ \E value \in VS :
         LET rhs == quantity_new(value, qty.unit)
         IN /\ qty' = quantity_add(qty, rhs)
            /\ call' = Call("Quantity::add", <<qty, rhs>>, qty')
    /\ UNCHANGED <<p, v, t, q, origin, applied, built, quantities, moves>>

\* let qty = qty - Quantity::<U>::new(value);
QuantitySub(VS) ==
    /\ qty # NoQuantity
    /\ call.op = "Quantity::new"
    /\ \E value \in VS :
         LET rhs == quantity_new(value, qty.unit)
         IN /\ qty' = quantity_sub(qty, rhs)
            /\ call' = Call("Quantity::sub", <<qty, rhs>>, qty')
    /\ UNCHANGED <<p, v, t, q, origin, applied, built, quantities, moves>>

\* impl Add for Quantity<U> and impl Sub for Quantity<U> take Rhs = Self: an
\* operand of another unit is another type.
SameUnit(self, rhs) == self.unit = rhs.unit

\* A program with an operator applied to two different units does not compile.
Compiles == call.outcome # "type_error"

\* let qa: Quantity<U> = Quantity::new(a);  let qb: Quantity<W> = Quantity::new(b);
QuantityLet(VS, US) ==
    /\ qb = NoQuantity
    /\ \E value \in VS, U \in US :
         LET n == quantity_new(value, U)
         IN /\ IF qa = NoQuantity
               THEN qa' = n /\ qb' = qb
               ELSE qb' = n /\ qa' = qa
            /\ call' = Call("Quantity::new", <<value>>, n)
    /\ UNCHANGED <<p, v, t, q, qty, built, origin, applied, sum, diff, back, raw, moves>>

\* let sum = qa + qb;
QuantitySum ==
    /\ qb # NoQuantity /\ sum = NoQuantity /\ Compiles
    /\ IF SameUnit(qa, qb)
       THEN /\ sum' = quantity_add(qa, qb)
            /\ call' = Call("Quantity::add", <<qa, qb>>, sum')
       ELSE /\ call' = [op |-> "Quantity::add", in |-> <<qa, qb>>, outcome |-> "type_error"]
            /\ UNCHANGED sum
    /\ UNCHANGED <<p, v, t, q, qty, built, origin, applied, qa, qb, diff, back, raw, moves>>

\* let diff = qa - qb;
QuantityDiff ==
    /\ qb # NoQuantity /\ diff = NoQuantity /\ Compiles
    /\ IF SameUnit(qa, qb)
       THEN /\ diff' = quantity_sub(qa, qb)
            /\ call' = Call("Quantity::sub", <<qa, qb>>, diff')
       ELSE /\ call' = [op |-> "Quantity::sub", in |-> <<qa, qb>>, outcome |-> "type_error"]
            /\ UNCHANGED diff
    /\ UNCHANGED <<p, v, t, q, qty, built, origin, applied, qa, qb, sum, back, raw, moves>>

\* let back = sum - qb;
QuantityBack ==
    /\ sum # NoQuantity /\ back = NoQuantity /\ Compiles
    /\ IF SameUnit(sum, qb)
       THEN /\ back' = quantity_sub(sum, qb)
            /\ call' = Call("Quantity::sub", <<sum, qb>>, back')
       ELSE /\ call' = [op |-> "Quantity::sub", in |-> <<sum, qb>>, outcome |-> "type_error"]
            /\ UNCHANGED back
    /\ UNCHANGED <<p, v, t, q, qty, built, origin, applied, qa, qb, sum, diff, raw, moves>>

\* let raw = qa.get();
QuantityRaw ==
    /\ qa # NoQuantity /\ raw = NoValue /\ Compiles
    /\ raw' = quantity_get(qa)
    /\ call' = Call("Quantity::get", <<qa>>, raw')
    /\ UNCHANGED <<p, v, t, q, qty, built, origin, applied, qa, qb, sum, diff, back, moves>>

\* let p = Transform::<F, F>::from_translation(tx, ty, tz).apply_point(p);
\* where p is a Point3<F>.
Translate(XS, YS, ZS, n) ==
    /\ p # NoPoint
    /\ Len(moves) < n
    /\ \E tx \in XS, ty \in YS, tz \in ZS :
         /\ t' = from_translation(tx, ty, tz, p.frame, p.frame)
         /\ built' = Call("Transform::from_translation", <<tx, ty, tz>>, t')
         /\ p' = apply_point(t', p)
         /\ call' = Call("apply_point", <<t', p>>, p')
         /\ applied' = Append(applied, <<t'.from, t'.to>>)
         /\ moves' = Append(moves, <<tx, ty, tz>>)
    /\ UNCHANGED <<v, q, qty, origin, quantities>>

\* Nothing is bound when the program starts.
Init ==
    /\ p = NoPoint
    /\ v = NoPoint
    /\ t = NoTransform
    /\ q = NoQuat
    /\ qty = NoQuantity
    /\ call = NoCall
    /\ built = NoCall
    /\ origin = NoPoint
    /\ applied = <<>>
    /\ qa = NoQuantity
    /\ qb = NoQuantity
    /\ sum = NoQuantity
    /\ diff = NoQuantity
    /\ back = NoQuantity
    /\ raw = NoValue
    /\ moves = <<>>

(***************************************************************************)
(* Spec: a caller that moves one point through a chain of transforms       *)
(* between the three frames.                                               *)
(***************************************************************************)
\* Longest chain of apply_point calls explored.
MaxApply == 3

\* -1.0, 2.0, -2.0, -1.5
MinusOne == Fin(1, One)
Two == Fin(0, 2 * One)
MinusTwo == Fin(1, 2 * One)
MinusOneAndHalf == Fin(1, One + One \div 2)

\* A quarter turn about z followed by a shift: rows (0,-1,0,1), (1,0,0,0),
\* (0,0,1,0); the fourth row is not the affine (0,0,0,1).
TurnMatrix ==
    << <<Zero, MinusOne, Zero, OneF>>,
       <<OneF, Zero, Zero, Zero>>,
       <<Zero, Zero, OneF, Zero>>,
       <<Two, Two, Two, Two>> >>

Next ==
    \/ PointNew({OneF}, {Zero}, {MinusTwo}, Frames)
    \/ TransformIdentity(Frames, Frames, MaxApply)
    \/ TransformFromTranslation({OneF, MinusOne}, {Zero}, {Zero}, Frames, Frames, MaxApply)
    \/ TransformFromMatrix({TurnMatrix}, Frames, Frames, MaxApply)
    \/ ApplyPoint(MaxApply)

Spec == Init /\ [][Next]_vars

(***************************************************************************)
(* SpecQuat: one UnitQuat construction per behaviour, over every pair of   *)
(* floats in x and y and representative floats in z and w.                 *)
(***************************************************************************)
QSample == {Zero, Tiny, OneF, MaxF, NaN, Inf(1)}

NextQuat ==
    \/ QuatTryFromComponents(Floats, Floats, QSample, QSample)
    \/ QuatNewUnchecked(Floats, Floats, QSample, QSample)
    \/ QuatIdentity

SpecQuat == Init /\ [][NextQuat]_vars

(***************************************************************************)
(* SpecIdentity, SpecTranslation, SpecMatrix: one apply_point per          *)
(* behaviour, the point and the transform drawn over every float in the    *)
(* first coordinate and representative floats in the others.               *)
(***************************************************************************)
CSample == {MinusOne, MaxF}

NextIdentity ==
    \/ PointNew(Floats, CSample \cup {Fin(1, 0)}, CSample, Frames)
    \/ TransformIdentity(Frames, Frames, 1)
    \/ ApplyPoint(1)

SpecIdentity == Init /\ [][NextIdentity]_vars

NextTranslation ==
    \/ PointNew(Floats, {Zero, MaxF}, {MinusTwo, MaxF}, {"Body"})
    \/ TransformFromTranslation(Floats, {Zero, MaxF}, {Zero, MaxF}, {"Body"}, {"World"}, 1)
    \/ ApplyPoint(1)

SpecTranslation == Init /\ [][NextTranslation]_vars

\* Matrix entries: an ordinary value, f64::MAX, a NaN.
MSample == {MinusOneAndHalf, MaxF, NaN}
\* Rows 1 to 3: the identity's, or rows whose products overflow and cancel.
RestRows ==
    { << <<Zero, OneF, Zero, Zero>>, <<Zero, Zero, OneF, Zero>>, <<Zero, Zero, Zero, OneF>> >>,
      << <<MaxF, Fin(1, MaxK), OneF, Zero>>, <<Two, Tiny, MinusOneAndHalf, Inf(0)>>,
         <<NaN, Inf(1), MinusOne, Zero>> >> }
Matrices ==
    { <<r0, rest[1], rest[2], rest[3]>> :
        r0 \in MSample \X MSample \X MSample \X MSample, rest \in RestRows }

NextMatrix ==
    \/ PointNew(Floats, CSample, CSample, {"Body"})
    \/ TransformFromMatrix(Matrices, {"Body"}, {"World"}, 1)
    \/ ApplyPoint(1)

SpecMatrix == Init /\ [][NextMatrix]_vars

(***************************************************************************)
(* SpecApi: every operation of the crate, called on representative         *)
(* arguments.                                                              *)
(***************************************************************************)
ASample == {Zero, Tiny, MinusOneAndHalf, MaxF, NaN, Inf(0)}
ApiMatrices ==
    {TurnMatrix} \cup
    { << <<Inf(1), NaN, Tiny, MaxF>>, rest[1], rest[2], rest[3] >> : rest \in RestRows }

NextApi ==
    \/ PointNew(ASample, ASample, {MinusOne}, {"Body"})
    \/ VectorNew(ASample, ASample, ASample, Frames)
    \/ TransformIdentity({"Body"}, Frames, 1)
    \/ TransformFromTranslation(ASample, {MaxF}, {NaN}, {"Body"}, Frames, 1)
    \/ TransformFromMatrix(ApiMatrices, {"Body"}, Frames, 1)
    \/ ApplyPoint(1)
    \/ QuatTryFromComponents(ASample, ASample, ASample, ASample)
    \/ QuatNewUnchecked(ASample, ASample, ASample, ASample)
    \/ QuatIdentity
    \/ QuantityNew(ASample, Units)
    \/ QuantityGet
    \/ QuantityAdd(ASample)
    \/ QuantitySub(ASample)

SpecApi == Init /\ [][NextApi]_vars

(***************************************************************************)
(* SpecQuantity: two quantities, their sum, their difference, the sum      *)
(* less the second operand, and the raw value of the first.                *)
(***************************************************************************)
NextQuantity ==
    \/ QuantityLet(Floats, Units)
    \/ QuantitySum
    \/ QuantityDiff
    \/ QuantityBack
    \/ QuantityRaw

SpecQuantity == Init /\ [][NextQuantity]_vars

(***************************************************************************)
(* SpecCompose: a point moved by a sequence of translations.               *)
(***************************************************************************)
\* Longest sequence of translations explored.
MaxMoves == 2

\* Offsets: zero, the smallest subnormal, 0.75, 1.0, -1.0, -1.5, +/- f64::MAX.
TSample ==
    {Zero, Tiny, Fin(0, One \div 2 + One \div 4), OneF, MinusOne, MinusOneAndHalf,
     MaxF, Fin(1, MaxK)}

NextCompose ==
    \/ PointNew(Floats, {Zero, MinusOne}, {MinusTwo}, {"World"})
    \/ Translate(TSample, {OneF}, {Zero}, MaxMoves)

SpecCompose == Init /\ [][NextCompose]_vars

(***************************************************************************)
(* The claims.                                                             *)
(***************************************************************************)
\* The last call was an apply_point that compiled; its transform and argument.
Applied == call.op = "apply_point" /\ call.outcome = "Ok"
UsedTransform == call.in[1]
Argument == call.in[2]
FinitePoint(pt) == is_finite(pt.x) /\ is_finite(pt.y) /\ is_finite(pt.z)
AllFinite(in) == \A i \in 1..Len(in) : in[i].c = "fin"

\* C1: apply_point is only applied to a point tagged with the transform's
\* From and returns a point tagged with its To: the transforms applied so far
\* form a chain from the first point's frame to the frame the point has now,
\* nothing else changes the tag, and a call whose transform's From differs
\* from the point's tag is rejected and leaves the point as it was.
C1_FrameChain ==
    /\ p # NoPoint =>
         p.frame = IF applied = <<>> THEN origin.frame ELSE applied[Len(applied)][2]
    /\ \A i \in 1..Len(applied) :
         applied[i][1] = IF i = 1 THEN origin.frame ELSE applied[i - 1][2]
    /\ Applied =>
         /\ UsedTransform.from = Argument.frame
         /\ p.frame = UsedTransform.to
         /\ applied # <<>>
         /\ applied[Len(applied)] = <<UsedTransform.from, UsedTransform.to>>
    /\ call.op = "apply_point" =>
         (call.outcome = "type_error" <=> UsedTransform.from # Argument.frame)
    /\ call.op = "apply_point" /\ call.outcome = "type_error" => p = Argument

\* C1 witness: two transforms between different frames were applied in a
\* chain and a third, declared for another frame, has just been rejected.
C1_Witness ==
    /\ Len(applied) = 2
    /\ applied[1][1] # applied[1][2]
    /\ applied[2][1] # applied[2][2]
    /\ call.op = "apply_point"
    /\ call.outcome = "type_error"

\* C2: the identity transform returns the coordinates of every finite point
\* unchanged (equal as f64 values; every nonzero coordinate bit for bit),
\* whatever the frame pair, tagged with To.
C2_IdentityExact ==
    (Applied /\ built.op = "Transform::identity" /\ FinitePoint(Argument)) =>
        /\ feq(p.x, Argument.x) /\ feq(p.y, Argument.y) /\ feq(p.z, Argument.z)
        /\ Argument.x.k # 0 => p.x = Argument.x
        /\ Argument.y.k # 0 => p.y = Argument.y
        /\ Argument.z.k # 0 => p.z = Argument.z
        /\ p.frame = UsedTransform.to

\* C2 witness: the identity between two different frames has been applied to
\* a point with a subnormal, a negative zero and the largest coordinate.
C2_Witness ==
    /\ Applied
    /\ built.op = "Transform::identity"
    /\ UsedTransform.from = "Body"
    /\ UsedTransform.to = "World"
    /\ Argument.x = Fin(1, 1)
    /\ Argument.y = Fin(1, 0)
    /\ Argument.z = MaxF

\* got is the f64 sum a + b, and where the exact sum is within f64's range it
\* is finite and off the exact sum by at most 2^-Prec of it.
IsSum(got, a, b) ==
    /\ feq(got, fadd(a, b))
    /\ Abs(Signed(a) + Signed(b)) <= MaxK =>
         /\ is_finite(got)
         /\ Pow2(Prec) * Abs(Signed(got) - (Signed(a) + Signed(b)))
              <= Abs(Signed(a) + Signed(b))

\* C3: a translation by finite offsets moves every finite point by the
\* offsets: each coordinate is the f64 sum of the coordinate and its offset,
\* within a rounding error of the exact sum.
C3_TranslationAdds ==
    (Applied /\ built.op = "Transform::from_translation"
       /\ AllFinite(built.in) /\ FinitePoint(Argument)) =>
        /\ IsSum(p.x, Argument.x, built.in[1])
        /\ IsSum(p.y, Argument.y, built.in[2])
        /\ IsSum(p.z, Argument.z, built.in[3])
        /\ p.frame = UsedTransform.to

\* C3 witness: (1, 0, -2) has been translated by (2, 0, 0) to (3, 0, -2).
C3_Witness ==
    /\ Applied
    /\ built.op = "Transform::from_translation"
    /\ built.in = <<Two, Zero, Zero>>
    /\ Argument = Point3_new(OneF, Zero, MinusTwo, "Body")
    /\ p = Point3_new(Fin(0, 3 * One), Zero, MinusTwo, "World")

\* The product of row i of m with the homogeneous vector h, summed from the
\* first term to term j.
RECURSIVE RowTimes(_, _, _, _)
RowTimes(m, i, h, j) ==
    IF j = 0 THEN fmul(At(m, i, 0), h[1])
    ELSE fadd(RowTimes(m, i, h, j - 1), fmul(At(m, i, j), h[j + 1]))

\* C4: from_matrix keeps any matrix as it is given, and apply_point returns
\* the first three components of the product of the matrix with (x, y, z, 1).
C4_MatrixVectorProduct ==
    /\ call.op = "Transform::from_matrix" =>
         t.matrix = call.in[1] /\ call.outcome = "Ok"
    /\ Applied =>
         LET h == <<Argument.x, Argument.y, Argument.z, OneF>>
             m == UsedTransform.matrix
         IN /\ p.x = RowTimes(m, 0, h, 3)
            /\ p.y = RowTimes(m, 1, h, 3)
            /\ p.z = RowTimes(m, 2, h, 3)

\* C4 witness: a matrix that is not affine and holds NaN and f64::MAX has
\* been applied to a finite point.
C4_Witness ==
    /\ Applied
    /\ UsedTransform.matrix[1] = <<MinusOneAndHalf, MaxF, NaN, MinusOneAndHalf>>
    /\ UsedTransform.matrix[4] = <<NaN, Inf(1), MinusOne, Zero>>
    /\ FinitePoint(Argument)

\* The last call was try_from_components.
Tried == call.op = "try_from_components"

\* C5: try_from_components with a NaN or infinite component is NonFinite,
\* whatever the other components are.
C5_NonFiniteFirst ==
    (Tried /\ ~AllFinite(call.in)) => q = Err("NonFinite")

\* C5 witness: (0, 0, 0, NaN), whose other components are all zero, has been
\* rejected as non-finite.
C5_Witness ==
    /\ Tried
    /\ call.in = <<Zero, Zero, Zero, NaN>>
    /\ q.kind = "NonFinite"

AllZero(in) == \A i \in 1..Len(in) : in[i].k = 0

\* C6 as claimed: four finite components are rejected as zero-norm exactly
\* when all four are zero.
C6_OnlyAllZeroRejected ==
    (Tried /\ AllFinite(call.in)) =>
        (q = Err("ZeroNormQuaternion") <=> AllZero(call.in))

\* C6 as the code has it: four finite components are rejected as zero-norm
\* exactly when the computed sum of squares is zero, that is when the square
\* of every component is at most half the smallest subnormal and rounds to
\* zero; every other finite input is normalized.  (k * k * unit <= 1/2 is
\* 2 * k * k <= One, the unit being 1/One.)
C6_RejectedWhenSquaresVanish ==
    (Tried /\ AllFinite(call.in)) =>
        /\ q = Err("ZeroNormQuaternion") <=>
             \A i \in 1..4 : 2 * call.in[i].k * call.in[i].k <= One
        /\ q # Err("ZeroNormQuaternion") => q.kind = "Ok"

\* C6 witness: a quaternion with one nonzero, subnormal component has been
\* rejected as zero-norm.
C6_Witness ==
    /\ Tried
    /\ call.in = <<Fin(1, 1), Zero, Zero, Zero>>
    /\ q = Err("ZeroNormQuaternion")

\* x^2 + y^2 + z^2 + w^2 of val is 1 within the tolerance the reduced
\* precision allows: between 1/2 and 2 (f64: within 1e-9).
UnitNorm(val) ==
    LET S == val[1].k * val[1].k + val[2].k * val[2].k
             + val[3].k * val[3].k + val[4].k * val[4].k
    IN /\ AllFinite(val)
       /\ 2 * S >= One * One
       /\ S <= 2 * One * One

\* C7: four finite components that are not all zero are accepted and the
\* result has unit norm.
C7_FiniteNonzeroNormalizes ==
    (Tried /\ AllFinite(call.in) /\ ~AllZero(call.in)) =>
        /\ q.kind = "Ok"
        /\ UnitNorm(q.val)

\* C8: every UnitQuat that exists has unit norm, and identity() is
\* (0, 0, 0, 1).
C8_EveryUnitQuatIsUnit ==
    /\ q.kind = "Ok" => UnitNorm(q.val)
    /\ call.op = "UnitQuat::identity" => q = Ok(<<Zero, Zero, Zero, OneF>>)

\* The operations that return a plain value, not a Result.
TotalOps ==
    {"Point3::new", "Vector3::new", "Transform::identity", "Transform::from_matrix",
     "Transform::from_translation", "apply_point", "new_unchecked", "UnitQuat::identity",
     "Quantity::new", "Quantity::get", "Quantity::add", "Quantity::sub"}

\* C9: a call ends with a value or with one of the two SpatialErrors; only
\* try_from_components ends with an error, and it returns exactly one of
\* Ok(value), Err(NonFinite), Err(ZeroNormQuaternion); every other operation
\* returns a value for every input.
C9_OnlyTryFromComponentsFails ==
    /\ call.outcome \in {"none", "Ok"} \cup SpatialError
    /\ call.outcome \in SpatialError => Tried
    /\ Tried =>
         /\ q.kind = call.outcome
         /\ q.kind = "Ok" => Len(q.val) = 4
         /\ q.kind # "Ok" => q = Err(q.kind)
    /\ call.op \in TotalOps => call.outcome = "Ok"
    /\ call.op \in TotalOps \cup {"try_from_components", "none"}

\* C9 witness: apply_point has returned a point with a NaN coordinate, as a
\* value.
C9_Witness ==
    /\ Applied
    /\ p.x = NaN
    /\ FinitePoint(Argument)

\* Every entry of the matrix is finite.
FiniteMatrix(m) == \A i \in 1..4 : AllFinite(m[i])

\* C10: a transform with a finite matrix maps a finite point to a finite
\* point.
C10_FiniteInFiniteOut ==
    (Applied /\ FiniteMatrix(UsedTransform.matrix) /\ FinitePoint(Argument)) =>
        FinitePoint(p)

\* The distance between two finite f64 values is at most num/den.
Within(a, b, num, den) ==
    /\ is_finite(a) /\ is_finite(b)
    /\ Abs(Signed(a) - Signed(b)) <= (num * Pow2(Prec + Bias - 2)) \div den

\* a == b, or both are NaN.
SameValue(a, b) == feq(a, b) \/ (a.c = "nan" /\ b.c = "nan")

\* Adding a zero-valued quantity on either side gives the other operand's value.
ZeroIsIdentity ==
    sum # NoQuantity =>
      /\ feq(qb.value, Zero) => SameValue(quantity_get(sum), quantity_get(qa))
      /\ feq(qa.value, Zero) => SameValue(quantity_get(sum), quantity_get(qb))

\* C11 as stated: for any two quantities of one unit, ((a+b)-b).get() is
\* within 1e-9 of a, and a zero-valued quantity is a left and a right
\* identity of addition.
C11_AddThenSubIsIdentity ==
    /\ (back # NoQuantity /\ is_finite(qa.value) /\ is_finite(qb.value)) =>
         Within(quantity_get(back), quantity_get(qa), 1, 1000000000)
    /\ ZeroIsIdentity

\* C11 amended: when a and b are finite and |a| + |b| is at most f64::MAX,
\* ((a+b)-b).get() is finite and differs from a by at most
\* 3 * 2^-Prec * (|a| + |b|) (two roundings); a zero-valued quantity is a left
\* and a right identity of addition for every value.
C11_AddThenSubWithinRounding ==
    /\ (back # NoQuantity /\ is_finite(qa.value) /\ is_finite(qb.value)
          /\ Abs(Signed(qa.value)) + Abs(Signed(qb.value)) <= MaxK) =>
         /\ is_finite(back.value)
         /\ Pow2(Prec) * Abs(Signed(back.value) - Signed(qa.value))
              <= 3 * (Abs(Signed(qa.value)) + Abs(Signed(qb.value)))
    /\ ZeroIsIdentity

\* The round trip was made and came back off by a rounding error.
C11_Witness ==
    /\ back # NoQuantity
    /\ Abs(Signed(qa.value)) + Abs(Signed(qb.value)) <= MaxK
    /\ is_finite(back.value)
    /\ ~feq(back.value, qa.value)
    /\ ~feq(qb.value, Zero)

\* got is the f64 value of a + b: the rounded exact sum when a and b are
\* finite, the IEEE result (an infinity or NaN) otherwise.
IsSumOrSpecial(got, a, b) ==
    IF is_finite(a) /\ is_finite(b) THEN IsSum(got, a, b)
    ELSE SameValue(got, fadd(a, b)) /\ ~is_finite(got)

\* C12: the sum and the difference of two quantities of unit U are quantities
\* of unit U holding the f64 sum and difference of the operands' values;
\* Quantity::new(v).get() is v; an operation leaves its operands as they were;
\* and operands of two different units are never combined.
C12_SameUnitArithmetic ==
    /\ [](/\ sum # NoQuantity =>
               /\ sum.unit = qa.unit /\ sum.unit = qb.unit
               /\ IsSumOrSpecial(sum.value, qa.value, qb.value)
          /\ diff # NoQuantity =>
               /\ diff.unit = qa.unit /\ diff.unit = qb.unit
               /\ IsSumOrSpecial(diff.value, qa.value, fneg(qb.value))
          /\ (raw # NoValue /\ call.op = "Quantity::get") => raw = call.in[1].value
          /\ raw # NoValue => raw = qa.value
          /\ (qb # NoQuantity /\ ~SameUnit(qa, qb)) =>
               sum = NoQuantity /\ diff = NoQuantity /\ back = NoQuantity)
    /\ [][/\ qa # NoQuantity => qa' = qa
          /\ qb # NoQuantity => qb' = qb
          /\ sum # NoQuantity => sum' = sum]_vars

\* 1.0 and 0.5 of one unit were added and subtracted (the 100.0 and 50.0 of
\* the usage test, scaled), and the first was read back.
C12_Witness ==
    /\ qa = quantity_new(OneF, "Meters")
    /\ qb = quantity_new(Fin(0, One \div 2), "Meters")
    /\ sum = quantity_new(Fin(0, One + One \div 2), "Meters")
    /\ diff = quantity_new(Fin(0, One \div 2), "Meters")
    /\ raw = OneF

\* m read as column-major storage: Columns(m)[r][c] is m[c][r].
Columns(m) == [r \in 1..4 |-> [c \in 1..4 |-> m[c][r]]]

\* C13: Transform.matrix is column-major: from_translation stores the
\* translation column (tx, ty, tz) in matrix[3][0..2], and apply_point
\* computes coordinate r as the sum over c of matrix[c][r] * h[c].
C13_ColumnMajorLayout ==
    /\ (t # NoTransform /\ built.op = "Transform::from_translation") =>
         /\ SameValue(At(t.matrix, 3, 0), built.in[1])
         /\ SameValue(At(t.matrix, 3, 1), built.in[2])
         /\ SameValue(At(t.matrix, 3, 2), built.in[3])
    /\ Applied =>
         LET h == <<Argument.x, Argument.y, Argument.z, OneF>>
             m == Columns(UsedTransform.matrix)
         IN /\ SameValue(p.x, RowTimes(m, 0, h, 3))
            /\ SameValue(p.y, RowTimes(m, 1, h, 3))
            /\ SameValue(p.z, RowTimes(m, 2, h, 3))

\* Fourth rows to put in the place of the applied transform's.
\* the affine row, a zero row, a scaled w, a perspective row, a non-finite row.
FourthRows ==
    { <<Zero, Zero, Zero, OneF>>, <<Zero, Zero, Zero, Zero>>, <<Zero, Zero, Zero, Two>>,
      <<OneF, OneF, OneF, OneF>>, <<NaN, Inf(0), MaxF, Tiny>> }

\* C14: apply_point does not depend on the fourth row: the transform that
\* was applied, with any other fourth row, maps the same argument to the same
\* point; and the call leaves the transform as it was.
C14_FourthRowNeverRead ==
    Applied =>
      /\ \A row \in FourthRows :
           apply_point([UsedTransform EXCEPT !.matrix[4] = row], Argument) = p
      /\ t = UsedTransform

\* A transform whose fourth row is not (0, 0, 0, 1) has been applied to a
\* finite point and gave a finite x.
C14_Witness ==
    /\ Applied
    /\ UsedTransform.matrix[4] = <<NaN, Inf(1), MinusOne, Zero>>
    /\ FinitePoint(Argument)
    /\ is_finite(p.x)

\* The offsets of moves[1..n] along axis c, added up in f64 from the left.
RECURSIVE OffsetSum(_, _)
OffsetSum(c, n) ==
    IF n = 1 THEN moves[1][c] ELSE fadd(OffsetSum(c, n - 1), moves[n][c])

\* The exact sum of the offsets of moves[1..n] along axis c, and of their
\* magnitudes.
RECURSIVE ExactSum(_, _)
ExactSum(c, n) == IF n = 0 THEN 0 ELSE ExactSum(c, n - 1) + Signed(moves[n][c])
RECURSIVE MagSum(_, _)
MagSum(c, n) == IF n = 0 THEN 0 ELSE MagSum(c, n - 1) + Abs(Signed(moves[n][c]))

Coord(pt, c) == IF c = 1 THEN pt.x ELSE IF c = 2 THEN pt.y ELSE pt.z

\* The point and the offsets are finite.
FiniteMoves ==
    /\ FinitePoint(origin)
    /\ \A i \in 1..Len(moves) : AllFinite(moves[i])

\* origin moved once by the summed offsets.
MovedOnce ==
    apply_point(from_translation(OffsetSum(1, Len(moves)), OffsetSum(2, Len(moves)),
                                 OffsetSum(3, Len(moves)), origin.frame, origin.frame),
                origin)

\* C15 as stated: a finite point moved by a sequence of finite translations
\* is the point moved once by the sum of their offsets, so a translation
\* followed by its opposite returns the point.
C15_TranslationsCompose ==
    (Len(moves) >= 1 /\ FiniteMoves) =>
      /\ \A c \in 1..3 : SameValue(Coord(p, c), Coord(MovedOnce, c))
      /\ (Len(moves) = 2 /\ \A c \in 1..3 : moves[2][c] = fneg(moves[1][c])) =>
           \A c \in 1..3 : feq(Coord(p, c), Coord(origin, c))

\* |P| plus the magnitudes of the offsets on axis c, and the exact sum.
Travel(c) == Abs(Signed(Coord(origin, c))) + MagSum(c, Len(moves))
Exact(c) == Signed(Coord(origin, c)) + ExactSum(c, Len(moves))

\* Half of f64::MAX bounds |P| plus the magnitudes of the offsets on every axis.
InRange == \A c \in 1..3 : 2 * Travel(c) <= MaxK

\* C15 amended: when the point and the n offsets are finite and, on every
\* axis, |P| plus the magnitudes of the offsets is at most f64::MAX / 2, the
\* point moved by the sequence and the point moved once by the summed offsets
\* are both finite and, on each axis, both within
\* (n + 1) * 2^-Prec * (|P| + sum |t_i|) of the exact sum P + sum t_i.
C15_TranslationsComposeWithinRounding ==
    (Len(moves) >= 1 /\ FiniteMoves /\ InRange) =>
      \A c \in 1..3 :
        /\ is_finite(Coord(p, c)) /\ is_finite(Coord(MovedOnce, c))
        /\ Pow2(Prec) * Abs(Signed(Coord(p, c)) - Exact(c))
             <= (Len(moves) + 1) * Travel(c)
        /\ Pow2(Prec) * Abs(Signed(Coord(MovedOnce, c)) - Exact(c))
             <= (Len(moves) + 1) * Travel(c)

\* Two translations within range were applied and the result is not the
\* point moved once by the summed offsets.
C15_Witness ==
    /\ Len(moves) = 2 /\ FiniteMoves /\ InRange
    /\ ~feq(p.x, MovedOnce.x)

====
